---- MODULE Spec2Model ----
(***************************************************************************)
(* The tiny pool of src/memory/tpool.c: a caller-supplied buffer carved    *)
(* into step-byte blocks, tracked by two bitmap arrays (head, body) of     *)
(* maxn machine words each.                                                *)
(*                                                                         *)
(* A bitmap word is modelled as the set of its set bit positions, a        *)
(* subset of 0 .. TB_TPOOL_BLOCK_MAXN-1.  Addresses handed out by the pool *)
(* are modelled as byte offsets from tpool->data; TB_NULL is -1.           *)
(***************************************************************************)
EXTENDS Integers, FiniteSets, Sequences, TLC

TB_TPOOL_MAGIC == 57005

TB_TPOOL_ALIGN_MAXN == 64

TB_TPOOL_BLOCK_MAXN == 64

TB_CPU_BITBYTE == 8

TB_NULL == -1

TB_TRUE == 1

\* the number of chunks (tpool->maxn) the modelled buffers yield is 1 .. MaxChunks
MaxChunks == 2

\* the number of malloc, ralloc and free calls explored between two tb_tpool_clear calls
MaxCalls == 3

VARIABLES
    handle,     \* the handle the caller holds: the address tb_tpool_init returned, 0 for TB_NULL
    debug,      \* the build: TRUE when compiled with TB_DEBUG
    magic,      \* tpool->magic
    align,      \* tpool->align
    step,       \* tpool->step
    full,       \* tpool->full
    maxn,       \* tpool->maxn
    headp,      \* tpool->head, as an address (0 for a null pointer)
    bodyp,      \* tpool->body, as an address
    datap,      \* tpool->data, as an address
    info,       \* tpool->info (all zero when built without TB_DEBUG)
    head,       \* the words of the head bitmap, each as its set of set bits
    body,       \* the words of the body bitmap, each as its set of set bits
    mem,        \* the blocks of the data region that hold bytes written by the caller
    op,         \* the last interface function called
    arg,        \* its size argument
    arg2,       \* its second scalar argument (align of init, item of nalloc)
    ptr,        \* its data argument
    ret,        \* the last value returned (an address for malloc/ralloc, a tb_bool_t for free)
    live,       \* history: the allocations returned non-null and not since freed or cleared
    nfail,      \* history: the mallocs of an accepted size that returned null since the last free/clear
    ncall       \* history: the number of malloc, ralloc and free calls since init or the last clear

vars == <<handle, debug, magic, align, step, full, maxn, headp, bodyp, datap, info, head, body,
          mem, op, arg, arg2, ptr, ret, live, nfail, ncall>>

Word == 0 .. (TB_TPOOL_BLOCK_MAXN - 1)

Max(a, b) == IF a > b THEN a ELSE b

\* the outcomes of a left shift whose count equals the word width (undefined in C):
\* "wrap" uses the count modulo the width (x86, AArch64), "zero" shifts everything out (ARM32)
ShiftOutcomes == {"wrap", "zero"}

\* bit i of (w >> n), n < width: bit i + n of w, and 0 beyond the word
ShrBit(w, n, i) == (i + n) \in w

\* w << n on a word; n may reach the width, where the outcome ub decides
Shl(w, n, ub) ==
    IF n < TB_TPOOL_BLOCK_MAXN
    THEN {i + n : i \in {j \in w : j + n < TB_TPOOL_BLOCK_MAXN}}
    ELSE IF ub = "wrap"
         THEN {i + (n % TB_TPOOL_BLOCK_MAXN) : i \in {j \in w : j + (n % TB_TPOOL_BLOCK_MAXN) < TB_TPOOL_BLOCK_MAXN}}
         ELSE {}

\* tb_align(size, step) / step
Bitn(size) == (size + step - 1) \div step

\* ((tb_size_t)1 << bitn) - 1
Bits(bitn, ub) ==
    IF bitn < TB_TPOOL_BLOCK_MAXN
    THEN 0 .. (bitn - 1)
    ELSE IF ub = "wrap" THEN {} ELSE Word

\* while (p < e && !(*p + 1)) p++;  the index reached, maxn when p == e
RECURSIVE FindChunk(_, _)
FindChunk(b, p) ==
    IF p < maxn /\ b[p] = Word THEN FindChunk(b, p + 1) ELSE p

\* the probe loop over blki: the first offset whose shifted free mask covers bits,
\* TB_TPOOL_BLOCK_MAXN when the loop runs out
RECURSIVE FindBlki(_, _, _)
FindBlki(blks, bits, blki) ==
    IF blki >= TB_TPOOL_BLOCK_MAXN THEN blki
    ELSE IF \A i \in bits : ShrBit(blks, blki, i) THEN blki
    ELSE FindBlki(blks, bits, blki + 1)

\* tb_tpool_malloc_find: the returned address and the bitmaps it leaves
tb_tpool_malloc_find(size, ub) ==
    LET p == FindChunk(body, 0)
    IN  IF ~(p < maxn)
        THEN [data |-> TB_NULL, head |-> head, body |-> body]
        ELSE LET bitn == Bitn(size)
                 blkn == TB_TPOOL_BLOCK_MAXN
             IN  IF ~(bitn # 0 /\ bitn <= TB_TPOOL_BLOCK_MAXN)
                 THEN [data |-> TB_NULL, head |-> head, body |-> body]
                 ELSE LET bits == Bits(bitn, ub)
                          blki == FindBlki(Word \ body[p], bits, 0)
                      IN  IF blkn = 0
                          THEN [data |-> TB_NULL, head |-> head, body |-> body]
                          ELSE [data |-> (p * TB_TPOOL_BLOCK_MAXN + blki) * step,
                                head |-> [head EXCEPT ![p] = @ \cup Shl({0}, blki, ub)],
                                body |-> [body EXCEPT ![p] = @ \cup Shl(bits, blki, ub)]]

\* sizeof(tb_tpool_t): the bit-field word, head, body, maxn, pred and data, and the
\* seven counters of tb_tpool_info_t when built with TB_DEBUG
SizeofTpool(dbg) == IF dbg THEN 13 * TB_CPU_BITBYTE ELSE 6 * TB_CPU_BITBYTE

\* tb_align(x, b): x rounded up to a multiple of the power of two b
tb_align(x, b) == ((x + b - 1) \div b) * b

\* tb_align_pow2(x): the least power of two that is at least x
RECURSIVE Pow2From(_, _)
Pow2From(p, x) == IF p >= x THEN p ELSE Pow2From(2 * p, x)

tb_align_pow2(x) == Pow2From(1, x)

\* tpool->info after tb_tpool_init and tb_tpool_clear
InfoZero == [used |-> 0, peak |-> 0, need |-> 0, real |-> 0, fail |-> 0, pred |-> 0, aloc |-> 0]

\* align = align? tb_align_pow2(align) : TB_CPU_BITBYTE; align = tb_max(align, TB_CPU_BITBYTE)
InitAlign(al) == Max(IF al # 0 THEN tb_align_pow2(al) ELSE TB_CPU_BITBYTE, TB_CPU_BITBYTE)

\* the step taken to be the alignment
InitStepBare(a) == a

\* tpool->step = tb_max(tpool->align, 16)
InitStep(a) == Max(a, 16)

\* the last check of tb_tpool_init left out
InitFitsAlways(mx, st, e, dt) == TRUE

\* the last check of tb_tpool_init: maxn * step * TB_TPOOL_BLOCK_MAXN <= data + size - tpool->data
InitFits(mx, st, e, dt) == mx * st * TB_TPOOL_BLOCK_MAXN <= e - dt

\* tb_tpool_init(data, size, align): how far it gets and the header fields it has then
\* written.  stage "args": returned before touching the buffer; "head", "maxn", "body",
\* "data": returned null at the check after that field was set; "ok": returned the pool
InitResult(data, size, al, dbg) ==
    LET a    == InitAlign(al)
        byte == tb_align(data, a) - data
        d    == data + byte
        e    == data + size
        st   == InitStep(a)
        hd   == tb_align(d + SizeofTpool(dbg), a)
        mx   == (e - hd) \div ((1 + (st * 4)) * (TB_CPU_BITBYTE * 2))
        bd   == hd + mx * TB_CPU_BITBYTE
        dt   == tb_align(bd + mx * TB_CPU_BITBYTE, a)
        stage ==
            IF data = 0 \/ size = 0 THEN "args"
            ELSE IF ~(a <= TB_TPOOL_ALIGN_MAXN) THEN "args"
            ELSE IF ~(size >= byte) \/ size - byte = 0 THEN "args"
            ELSE IF ~(e > hd) \/ hd % TB_CPU_BITBYTE # 0 THEN "head"
            ELSE IF mx = 0 THEN "maxn"
            ELSE IF ~(e > bd) \/ bd % TB_CPU_BITBYTE # 0 THEN "body"
            ELSE IF ~(e > dt) \/ ~InitFits(mx, st, e, dt) THEN "data"
            ELSE "ok"
    IN  [stage |-> stage,
         tpool |-> d,
         align |-> a,
         step  |-> st,
         head  |-> hd,
         maxn  |-> IF stage \in {"maxn", "body", "data", "ok"} THEN mx ELSE 0,
         body  |-> IF stage \in {"body", "data", "ok"} THEN bd ELSE 0,
         data  |-> IF stage \in {"data", "ok"} THEN dt ELSE 0]

\* the buffer the pools of Spec live in, and its size for k chunks at the requested align
MainBuf == 64

MainSize(k, al) == 256 + k * ((1 + (InitStep(InitAlign(al)) * 4)) * (TB_CPU_BITBYTE * 2))

\* the size check left out
SizeFitsAlways(size) == TRUE

\* the bound of the size check taken as exclusive
SizeFitsStrict(size) == size < step * TB_TPOOL_BLOCK_MAXN

\* too large?  size <= tpool->step * TB_TPOOL_BLOCK_MAXN
SizeFits(size) == size <= step * TB_TPOOL_BLOCK_MAXN

\* the blocks (numbered over the whole data region) of the run of n blocks at addr
Run(addr, n) == {(addr \div step) + i : i \in 0 .. (n - 1)}

\* the TB_DEBUG block of tb_tpool_malloc: tpool->info after a search that returned data
MallocInfo(data, size) ==
    IF data # TB_NULL
    THEN [info EXCEPT !.used = @ + tb_align(size, step),
                      !.need = @ + size,
                      !.real = @ + tb_align(size, step),
                      !.peak = Max(@, info.used + tb_align(size, step)),
                      !.aloc = @ + 1]
    ELSE [info EXCEPT !.fail = @ + 1, !.aloc = @ + 1]

\* tb_tpool_malloc zeroing the block it returns
MallocBytesZeroed(data, size) ==
    IF data = TB_NULL THEN mem ELSE mem \ Run(data, Bitn(size))

\* the caller's bytes after tb_tpool_malloc: it writes no byte of the data region
MallocBytes(data, size) == mem

\* the sizes requested: 0, the smallest, both ends of a rounding interval, runs of
\* 1, 2, 3, 32, 33 and TB_TPOOL_BLOCK_MAXN blocks, and one byte too many
SizeSet ==
    {0, 1, step, step + 1, 2 * step, 3 * step, 32 * step, 32 * step + 1,
     TB_TPOOL_BLOCK_MAXN * step, TB_TPOOL_BLOCK_MAXN * step + 1}

\* the addresses of the live allocations
LiveAddrs == {a.addr : a \in live}

\* the addresses passed to free: null, every live address, and a few block addresses
\* of the data region (blocks 0 and 1: an allocation start, a continuation block or a free block)
PtrSet ==
    {TB_NULL} \cup LiveAddrs \cup {b * step : b \in {0, 1}}

Init ==
    /\ debug = TRUE
    /\ \E k \in 1 .. MaxChunks : \E al \in {0, 32} :
         \E r \in {InitResult(MainBuf, MainSize(k, al), al, TRUE)} :
            /\ r.stage = "ok"
            /\ handle = r.tpool
            /\ magic = TB_TPOOL_MAGIC
            /\ align = r.align
            /\ step = r.step
            /\ full = 0
            /\ maxn = r.maxn
            /\ headp = r.head
            /\ bodyp = r.body
            /\ datap = r.data
            /\ head = [c \in 0 .. (r.maxn - 1) |-> {}]
            /\ body = [c \in 0 .. (r.maxn - 1) |-> {}]
            /\ op = "init" /\ arg = MainSize(k, al) /\ arg2 = al /\ ptr = MainBuf
            /\ ret = r.tpool
    /\ info = InfoZero
    /\ mem = {}
    /\ live = {}
    /\ nfail = 0
    /\ ncall = 0

\* tb_tpool_init(data, size, align)
tb_tpool_init(data, size, al) ==
    /\ op' = "init" /\ arg' = size /\ arg2' = al /\ ptr' = data
    /\ UNCHANGED debug
    /\ \E r \in {InitResult(data, size, al, debug)} :
         /\ handle' = IF r.stage = "ok" THEN r.tpool ELSE 0
         /\ ret' = IF r.stage = "ok" THEN r.tpool ELSE 0
         /\ IF r.stage = "args"
            THEN UNCHANGED <<magic, align, step, full, maxn, headp, bodyp, datap, info,
                             head, body, mem, live, nfail, ncall>>
            ELSE /\ magic' = TB_TPOOL_MAGIC
                 /\ align' = r.align
                 /\ step' = r.step
                 /\ full' = 0
                 /\ maxn' = r.maxn
                 /\ headp' = r.head
                 /\ bodyp' = r.body
                 /\ datap' = r.data
                 /\ info' = InfoZero
                 /\ head' = [c \in 0 .. (r.maxn - 1) |-> {}]
                 /\ body' = [c \in 0 .. (r.maxn - 1) |-> {}]
                 /\ mem' = {}
                 /\ live' = {}
                 /\ nfail' = 0
                 /\ ncall' = 0

\* tb_tpool_malloc(handle, size)
tb_tpool_malloc(size) ==
    /\ ncall < MaxCalls
    /\ ncall' = ncall + 1
    /\ op' = "malloc" /\ arg' = size /\ arg2' = 0 /\ ptr' = TB_NULL
    /\ UNCHANGED <<handle, debug, magic, align, step, maxn, headp, bodyp, datap>>
    /\ IF handle = 0 \/ magic # TB_TPOOL_MAGIC \/ size = 0 \/ ~SizeFits(size) \/ full # 0
       THEN /\ ret' = TB_NULL
            /\ UNCHANGED <<full, head, body, info, mem, live>>
            /\ nfail' = IF handle # 0 /\ magic = TB_TPOOL_MAGIC /\ size >= 1
                            /\ size <= step * TB_TPOOL_BLOCK_MAXN
                         THEN nfail + 1 ELSE nfail
       ELSE \E ub \in ShiftOutcomes :
               \E r \in {tb_tpool_malloc_find(size, ub)} :
                   /\ ret' = r.data
                   /\ head' = r.head
                   /\ body' = r.body
                   /\ info' = IF debug THEN MallocInfo(r.data, size) ELSE info
                   /\ full' = IF r.data = TB_NULL THEN 1 ELSE full
                   /\ mem' = MallocBytes(r.data, size)
                   /\ live' = IF r.data = TB_NULL THEN live
                              ELSE live \cup {[id |-> ncall, addr |-> r.data, bitn |-> Bitn(size)]}
                   /\ nfail' = IF r.data = TB_NULL THEN nfail + 1 ELSE nfail

\* tb_tpool_nalloc(handle, item, size)
tb_tpool_nalloc(item, size) ==
    /\ ncall < MaxCalls
    /\ ncall' = ncall + 1
    /\ op' = "nalloc" /\ arg' = size /\ arg2' = item /\ ptr' = TB_NULL
    /\ ret' = TB_NULL
    /\ UNCHANGED <<handle, debug, magic, align, step, full, maxn, headp, bodyp, datap, info,
                   head, body, mem, live, nfail>>

\* tb_tpool_ralloc(handle, data, size)
tb_tpool_ralloc(data, size) ==
    /\ ncall < MaxCalls
    /\ ncall' = ncall + 1
    /\ op' = "ralloc" /\ arg' = size /\ arg2' = 0 /\ ptr' = data
    /\ ret' = TB_NULL
    /\ UNCHANGED <<handle, debug, magic, align, step, full, maxn, headp, bodyp, datap, info,
                   head, body, mem, live, nfail>>

\* tb_tpool_free(handle, data)
tb_tpool_free(data) ==
    /\ ncall < MaxCalls
    /\ ncall' = ncall + 1
    /\ op' = "free" /\ arg' = 0 /\ arg2' = 0 /\ ptr' = data
    /\ ret' = TB_TRUE
    /\ live' = {a \in live : a.addr # data}
    /\ nfail' = 0
    /\ UNCHANGED <<handle, debug, magic, align, step, full, maxn, headp, bodyp, datap, info,
                   head, body, mem>>

\* tb_tpool_clear without the reset of tpool->full
tb_tpool_clear_keeps_full ==
    /\ op' = "clear" /\ arg' = 0 /\ arg2' = 0 /\ ptr' = TB_NULL
    /\ UNCHANGED ret
    /\ IF handle = 0 \/ magic # TB_TPOOL_MAGIC
       THEN UNCHANGED <<head, body, mem, full, info, live, nfail, ncall>>
       ELSE /\ mem' = {}
            /\ head' = [c \in DOMAIN head |-> {}]
            /\ body' = [c \in DOMAIN body |-> {}]
            /\ full' = full
            /\ info' = InfoZero
            /\ live' = {}
            /\ nfail' = 0
            /\ ncall' = 0
    /\ UNCHANGED <<handle, debug, magic, align, step, maxn, headp, bodyp, datap>>

\* tb_tpool_clear(handle)
tb_tpool_clear ==
    /\ op' = "clear" /\ arg' = 0 /\ arg2' = 0 /\ ptr' = TB_NULL
    /\ UNCHANGED ret
    /\ IF handle = 0 \/ magic # TB_TPOOL_MAGIC
       THEN UNCHANGED <<head, body, mem, full, info, live, nfail, ncall>>
       ELSE /\ mem' = {}
            /\ head' = [c \in DOMAIN head |-> {}]
            /\ body' = [c \in DOMAIN body |-> {}]
            /\ full' = 0
            /\ info' = InfoZero
            /\ live' = {}
            /\ nfail' = 0
            /\ ncall' = 0
    /\ UNCHANGED <<handle, debug, magic, align, step, maxn, headp, bodyp, datap>>

\* tb_tpool_exit without the memset of the header
tb_tpool_exit_keeps_header ==
    /\ op' = "exit" /\ arg' = 0 /\ arg2' = 0 /\ ptr' = TB_NULL
    /\ UNCHANGED ret
    /\ IF handle = 0 \/ magic # TB_TPOOL_MAGIC
       THEN UNCHANGED <<magic, align, step, full, maxn, headp, bodyp, datap, info,
                        head, body, mem, live, nfail, ncall>>
       ELSE /\ mem' = {}
            /\ head' = [c \in DOMAIN head |-> {}]
            /\ body' = [c \in DOMAIN body |-> {}]
            /\ live' = {}
            /\ nfail' = 0
            /\ ncall' = 0
            /\ full' = 0
            /\ UNCHANGED <<magic, align, step, maxn, headp, bodyp, datap>>
            /\ info' = InfoZero
    /\ UNCHANGED <<handle, debug>>

\* tb_tpool_exit(handle)
tb_tpool_exit ==
    /\ op' = "exit" /\ arg' = 0 /\ arg2' = 0 /\ ptr' = TB_NULL
    /\ UNCHANGED ret
    /\ IF handle = 0 \/ magic # TB_TPOOL_MAGIC
       THEN UNCHANGED <<magic, align, step, full, maxn, headp, bodyp, datap, info,
                        head, body, mem, live, nfail, ncall>>
       ELSE /\ mem' = {}
            /\ head' = [c \in DOMAIN head |-> {}]
            /\ body' = [c \in DOMAIN body |-> {}]
            /\ live' = {}
            /\ nfail' = 0
            /\ ncall' = 0
            /\ magic' = 0
            /\ align' = 0
            /\ step' = 0
            /\ full' = 0
            /\ maxn' = 0
            /\ headp' = 0
            /\ bodyp' = 0
            /\ datap' = 0
            /\ info' = InfoZero
    /\ UNCHANGED <<handle, debug>>

\* the caller fills a live allocation with a byte pattern
UserWrite(a) ==
    /\ ncall < MaxCalls
    /\ ncall' = ncall + 1
    /\ handle # 0 /\ magic = TB_TPOOL_MAGIC
    /\ op' = "write" /\ arg' = 0 /\ arg2' = 0 /\ ptr' = a.addr /\ ret' = TB_NULL
    /\ mem' = mem \cup {g \in Run(a.addr, a.bitn) : g < maxn * TB_TPOOL_BLOCK_MAXN}
    /\ UNCHANGED <<handle, debug, magic, align, step, full, maxn, headp, bodyp, datap, info,
                   head, body, live, nfail>>

Next ==
    \/ \E size \in SizeSet : tb_tpool_malloc(size)
    \/ \E size \in {step, 2 * step} : tb_tpool_nalloc(1, size)
    \/ \E data \in LiveAddrs \cup {TB_NULL} : \E size \in {2 * step} : tb_tpool_ralloc(data, size)
    \/ \E data \in PtrSet : tb_tpool_free(data)
    \/ \E a \in live : UserWrite(a)
    \/ tb_tpool_clear
    \/ tb_tpool_exit
    \/ \E k \in 1 .. MaxChunks : \E al \in {0, 32} : tb_tpool_init(MainBuf, MainSize(k, al), al)

Spec == Init /\ [][Next]_vars

\* the buffers, sizes and alignments tb_tpool_init is applied to in SpecInit: a null, an
\* aligned and two unaligned buffers; sizes from nothing to two chunks, with the sizes
\* around one chunk at align 64 where the padding before the data region matters
BufAddrs == {0, 64, 68, 100}

BufSizes == {0, 1, 30, 104, 160, 1100, 1200, 2300, 4200, 4260, 4300}

AlignReqs == {0, 1, 8, 12, 16, 32, 64, 65}

\* a buffer no pool was built in yet, in either build, and the arguments init will get
InitBlank ==
    /\ handle = 0
    /\ debug \in BOOLEAN
    /\ magic = 0 /\ align = 0 /\ step = 0 /\ full = 0 /\ maxn = 0
    /\ headp = 0 /\ bodyp = 0 /\ datap = 0
    /\ info = InfoZero
    /\ head = [c \in {} |-> {}]
    /\ body = [c \in {} |-> {}]
    /\ mem = {}
    /\ op = "none" /\ arg \in BufSizes /\ arg2 \in AlignReqs /\ ptr \in BufAddrs /\ ret = 0
    /\ live = {}
    /\ nfail = 0
    /\ ncall = 0

NextInit ==
    /\ op = "none"
    /\ tb_tpool_init(ptr, arg, arg2)

\* tb_tpool_init as a function of its arguments
SpecInit == InitBlank /\ [][NextInit]_vars

(***************************************************************************)
(* The properties                                                          *)
(***************************************************************************)

\* an accepted request size
ValidSize(size) == size >= 1 /\ size <= step * TB_TPOOL_BLOCK_MAXN

\* the first chunk of b whose word is not all-ones, maxn when there is none
FirstFreeChunk(b) ==
    IF \A c \in 0 .. (maxn - 1) : b[c] = Word
    THEN maxn
    ELSE CHOOSE c \in 0 .. (maxn - 1) :
            /\ b[c] # Word
            /\ \A d \in 0 .. (c - 1) : b[d] = Word

\* the offsets of word w at which n consecutive blocks are free
FreeRuns(w, n) == {o \in Word : \A i \in 0 .. (n - 1) : (o + i) \in Word /\ (o + i) \notin w}

\* the search for size in bitmap b has no run to return
NoRun(b, size) ==
    \/ FirstFreeChunk(b) = maxn
    \/ FreeRuns(b[FirstFreeChunk(b)], Bitn(size)) = {}

\* C1: the block runs of any two allocations live at the same time share no block
AllocationDisjointness ==
    \A a, b \in live : a # b => Run(a.addr, a.bitn) \cap Run(b.addr, b.bitn) = {}

\* C2: a non-null address returned by malloc is data + (chunk*wordBits + b)*step with
\* chunk < maxn, b < wordBits and b + ceilDiv(size, step) <= wordBits
ReturnedRunInsideChunk ==
    (op = "malloc" /\ ret # TB_NULL) =>
        \E chunk \in 0 .. (maxn - 1) : \E b \in Word :
            /\ ret = (chunk * TB_TPOOL_BLOCK_MAXN + b) * step
            /\ b + Bitn(arg) <= TB_TPOOL_BLOCK_MAXN

\* C3: when the search finds no run (every chunk all-ones, or the first chunk that is
\* not all-ones has no run of ceilDiv(size, step) free blocks) malloc returns null,
\* sets full and leaves both bitmaps unchanged
NoRunFails ==
    [][(op' = "malloc" /\ magic = TB_TPOOL_MAGIC /\ ValidSize(arg') /\ full = 0
            /\ NoRun(body, arg'))
        => (ret' = TB_NULL /\ full' = 1 /\ head' = head /\ body' = body)]_vars

\* C4: a successful malloc returns the lowest offset of the first chunk that is not
\* all-ones at which ceilDiv(size, step) blocks were free before the call
FirstFit ==
    [][(op' = "malloc" /\ ret' # TB_NULL)
        => /\ ~NoRun(body, arg')
           /\ \E o \in FreeRuns(body[FirstFreeChunk(body)], Bitn(arg')) :
                /\ \A o2 \in FreeRuns(body[FirstFreeChunk(body)], Bitn(arg')) : o <= o2
                /\ ret' = (FirstFreeChunk(body) * TB_TPOOL_BLOCK_MAXN + o) * step]_vars

\* C5: a successful malloc of a size in (step*(k-1), step*k] starting at block b sets
\* exactly the k body bits [b, b+k) and the head bit b of its chunk, and no other bit
SizeRounding ==
    [][(op' = "malloc" /\ ret' # TB_NULL)
        => \E c \in 0 .. (maxn - 1) : \E b \in Word :
              /\ ret' = (c * TB_TPOOL_BLOCK_MAXN + b) * step
              /\ b + Bitn(arg') <= TB_TPOOL_BLOCK_MAXN
              /\ (b .. (b + Bitn(arg') - 1)) \cap body[c] = {}
              /\ b \notin head[c]
              /\ body' = [body EXCEPT ![c] = @ \cup (b .. (b + Bitn(arg') - 1))]
              /\ head' = [head EXCEPT ![c] = @ \cup {b}]]_vars

\* C6: every set bit of head[c] is also set in body[c], for every chunk c
HeadWithinBody ==
    \A c \in 0 .. (maxn - 1) : head[c] \subseteq body[c]

\* C7: once a malloc of an accepted size has returned null, every later malloc of an
\* accepted size returns null and changes neither bitmap, until a free or a clear
ExhaustionSticky ==
    [][(nfail >= 1 /\ op' = "malloc" /\ ValidSize(arg'))
        => (ret' = TB_NULL /\ head' = head /\ body' = body)]_vars

\* a malloc has failed and a later malloc of an accepted size was refused too
ExhaustedTwice ==
    /\ nfail >= 2
    /\ op = "malloc" /\ ValidSize(arg) /\ ret = TB_NULL
    /\ full = 1

\* C8: free of a live allocation on an exhausted pool leaves full clear
FreeClearsFull ==
    [][(op' = "free" /\ ptr' \in LiveAddrs /\ full = 1) => full' = 0]_vars

\* C9: free of a live allocation clears exactly the body bits of its run and its head bit
FreeClearsRun ==
    [][(op' = "free" /\ ptr' \in LiveAddrs)
        => \E a \in live : \E c \in 0 .. (maxn - 1) : \E b \in Word :
              /\ a.addr = ptr'
              /\ a.addr = (c * TB_TPOOL_BLOCK_MAXN + b) * step
              /\ body' = [body EXCEPT ![c] = @ \ (b .. (b + a.bitn - 1))]
              /\ head' = [head EXCEPT ![c] = @ \ {b}]]_vars

\* C10: free of a step-aligned address of the data region whose head bit is not set
\* reports failure and leaves both bitmaps and full unchanged
FreeRejectsNonHead ==
    [][(op' = "free" /\ magic = TB_TPOOL_MAGIC /\ ptr' # TB_NULL /\ ptr' % step = 0
            /\ (ptr' \div step) < maxn * TB_TPOOL_BLOCK_MAXN
            /\ ((ptr' \div step) % TB_TPOOL_BLOCK_MAXN)
                   \notin head[(ptr' \div step) \div TB_TPOOL_BLOCK_MAXN])
        => (ret' # TB_TRUE /\ head' = head /\ body' = body /\ full' = full)]_vars

\* C11: ralloc of a live allocation of n blocks to a size of fewer blocks (at least one)
\* returns the same address, keeps the head bit and clears exactly the trailing body
\* bits of the run
ShrinkInPlace ==
    [][(op' = "ralloc" /\ magic = TB_TPOOL_MAGIC /\ ptr' \in LiveAddrs /\ arg' >= 1)
        => \A a \in live :
              (a.addr = ptr' /\ Bitn(arg') < a.bitn)
              => /\ ret' = ptr'
                 /\ head' = head
                 /\ \E c \in 0 .. (maxn - 1) : \E b \in Word :
                       /\ a.addr = (c * TB_TPOOL_BLOCK_MAXN + b) * step
                       /\ body' = [body EXCEPT ![c] =
                                      @ \ ((b + Bitn(arg')) .. (b + a.bitn - 1))]]_vars

\* the byte ranges [lo, hi) of the header, the head bitmap, the body bitmap and the data region
Regions ==
    {<<handle, handle + SizeofTpool(debug)>>,
     <<headp, headp + maxn * TB_CPU_BITBYTE>>,
     <<bodyp, bodyp + maxn * TB_CPU_BITBYTE>>,
     <<datap, datap + maxn * TB_TPOOL_BLOCK_MAXN * step>>}

\* C12: after a successful init on a buffer of size S, maxn >= 1, maxn*wordBits*step <= S,
\* and the header, the two bitmaps and the data region are pairwise disjoint and lie
\* within [buffer, buffer + S)
CapacityInvariant ==
    (op = "init" /\ handle # 0) =>
        /\ maxn >= 1
        /\ maxn * TB_TPOOL_BLOCK_MAXN * step <= arg
        /\ \A r \in Regions : r[1] < r[2] /\ ptr <= r[1] /\ r[2] <= ptr + arg
        /\ \A r, q \in Regions : r # q => (r[2] <= q[1] \/ q[2] <= r[1])

\* an init that succeeded on an unaligned buffer and had to pad before the data region
InitPadded ==
    /\ op = "init" /\ handle # 0
    /\ handle # ptr
    /\ datap > bodyp + maxn * TB_CPU_BITBYTE
    /\ maxn >= 1

\* the least power of two that is at least x
LeastPow2(x) ==
    CHOOSE p \in {1, 2, 4, 8, 16, 32, 64, 128} :
        p >= x /\ \A q \in {1, 2, 4, 8, 16, 32, 64, 128} : q >= x => p <= q

\* the alignment init is to resolve the request al to
WantedAlign(al) == Max(LeastPow2(IF al = 0 THEN TB_CPU_BITBYTE ELSE al), TB_CPU_BITBYTE)

\* C16: init resolves the alignment to max(roundUpToPowerOfTwo(requested, or the word
\* size for 0), word size) and fails when that exceeds 64; after a successful init the
\* alignment is a power of two in [word size, 64] and step = max(alignment, 16)
AlignmentResolved ==
    op = "init" =>
        /\ WantedAlign(arg2) > 64 => handle = 0
        /\ handle # 0 =>
              /\ align = WantedAlign(arg2)
              /\ align \in {8, 16, 32, 64}
              /\ step = Max(align, 16)
              /\ step \in {16, 32, 64}

\* an init that succeeded with a request that is not a power of two
AlignRounded ==
    op = "init" /\ handle # 0 /\ arg2 = 12 /\ align = 16 /\ step = 16

\* C13: clear on a valid pool leaves every word of both bitmaps zero and full clear, and
\* leaves maxn, step, align and the three region addresses as they were; the next malloc
\* of an accepted size returns the data region itself
ClearResets ==
    [][/\ (op' = "clear" /\ handle # 0 /\ magic = TB_TPOOL_MAGIC)
           => /\ \A c \in 0 .. (maxn - 1) : head'[c] = {} /\ body'[c] = {}
              /\ full' = 0
              /\ maxn' = maxn /\ step' = step /\ align' = align
              /\ headp' = headp /\ bodyp' = bodyp /\ datap' = datap
       /\ (op = "clear" /\ handle # 0 /\ magic = TB_TPOOL_MAGIC
              /\ op' = "malloc" /\ ValidSize(arg'))
           => ret' = 0]_vars

\* a clear that emptied a pool: the last address handed out was that of the second block
ClearedUsedPool ==
    /\ op = "clear" /\ handle # 0 /\ magic = TB_TPOOL_MAGIC
    /\ ret = step
    /\ \A c \in 0 .. (maxn - 1) : head[c] = {} /\ body[c] = {}
    /\ full = 0

\* C14: malloc, nalloc, free and ralloc calls leave the bytes of every live allocation
\* they are not called on as they were
OtherBytesKept ==
    [][(op' \in {"malloc", "nalloc", "free", "ralloc"})
        => \A a \in live :
              (a.addr # ptr')
              => (mem' \cap Run(a.addr, a.bitn)) = (mem \cap Run(a.addr, a.bitn))]_vars

\* a malloc succeeded while an older allocation still holds the bytes written into it
WrittenSurvivesMalloc ==
    /\ op = "malloc" /\ ret # TB_NULL
    /\ \E a \in live : a.addr # ret /\ a.id < ncall - 1 /\ Run(a.addr, a.bitn) \subseteq mem

\* C15: nalloc(item, size) returns what malloc(item * size) returns and leaves the pool
\* as that malloc leaves it
NallocAsMalloc ==
    [][(op' = "nalloc" /\ handle # 0 /\ magic = TB_TPOOL_MAGIC)
        => \E ub \in ShiftOutcomes :
              IF arg2' * arg' = 0 \/ ~SizeFits(arg2' * arg') \/ full # 0
              THEN ret' = TB_NULL /\ head' = head /\ body' = body /\ full' = full
              ELSE /\ ret' = tb_tpool_malloc_find(arg2' * arg', ub).data
                   /\ head' = tb_tpool_malloc_find(arg2' * arg', ub).head
                   /\ body' = tb_tpool_malloc_find(arg2' * arg', ub).body
                   /\ full' = IF ret' = TB_NULL THEN 1 ELSE full]_vars

\* C17: a malloc of size 0 or of a size above step*wordBits returns null and leaves both
\* bitmaps, full and the counters of tpool->info as they were
RejectedSizeNoEffect ==
    [][(op' = "malloc" /\ handle # 0 /\ magic = TB_TPOOL_MAGIC /\ ~ValidSize(arg'))
        => (ret' = TB_NULL /\ head' = head /\ body' = body /\ full' = full
            /\ info' = info)]_vars

\* a request one byte too large was refused on a pool in use, which is not exhausted
TooLargeRefused ==
    /\ op = "malloc" /\ handle # 0 /\ magic = TB_TPOOL_MAGIC
    /\ arg > step * TB_TPOOL_BLOCK_MAXN
    /\ ret = TB_NULL /\ full = 0
    /\ info.aloc >= 1 /\ info.fail = 0

\* C18: exit on a valid pool leaves a magic that does not match; from then on malloc
\* returns null, and malloc, clear and exit change no byte of the buffer
ExitInvalidates ==
    [][/\ (op' = "exit" /\ handle # 0 /\ magic = TB_TPOOL_MAGIC) => magic' # TB_TPOOL_MAGIC
       /\ (magic # TB_TPOOL_MAGIC /\ op' \in {"malloc", "clear", "exit"})
           => /\ UNCHANGED <<magic, align, step, full, maxn, headp, bodyp, datap, info,
                             head, body, mem>>
              /\ op' = "malloc" => ret' = TB_NULL]_vars

\* a malloc was refused on a pool that was exited
MallocAfterExit ==
    magic = 0 /\ handle # 0 /\ op = "malloc" /\ arg = 1 /\ ret = TB_NULL

\* the number of set bits in the words c .. maxn-1 of the body bitmap
RECURSIVE BodyBits(_)
BodyBits(c) == IF c >= maxn THEN 0 ELSE Cardinality(body[c]) + BodyBits(c + 1)

\* C19: in a TB_DEBUG build info.used is step times the number of set body bits,
\* info.peak >= info.used, info.real >= info.need and info.fail <= info.aloc
InfoConsistent ==
    (debug /\ handle # 0 /\ magic = TB_TPOOL_MAGIC) =>
        /\ info.used = step * BodyBits(0)
        /\ info.peak >= info.used
        /\ info.real >= info.need
        /\ info.fail <= info.aloc

====
